---- MODULE Spec2Model ----
\* Huffman code tree construction (src/src/huffman_tree.rs): get_frequencies
\* counts the characters of a string and seeds a BinaryHeap of leaf nodes;
\* build_huffman_tree merges the two least frequent nodes until one is left.
EXTENDS Integers, Sequences, FiniteSets, TLC

\* ---------------------------------------------------------------- bounds
MaxCount == 4      \* occurrences of one character in a grouped input
MaxLen == 3        \* length of the inputs enumerated character by character
MaxRuns == 2       \* runs of the program on the same input

AlphaSeq == <<"a", "b", "c", "d">>
Alphabet == {AlphaSeq[i] : i \in 1..Len(AlphaSeq)}
NoChar == "-"

\* ---------------------------------------------------------------- inputs
RECURSIVE Rep(_, _)
Rep(c, n) == IF n = 0 THEN <<>> ELSE <<c>> \o Rep(c, n - 1)

RECURSIVE Grouped(_, _)
Grouped(cnt, i) ==
    IF i > Len(AlphaSeq) THEN <<>>
    ELSE Rep(AlphaSeq[i], cnt[i]) \o Grouped(cnt, i + 1)

RECURSIVE SeqsUpTo(_)
SeqsUpTo(n) ==
    IF n = 0 THEN {<<>>}
    ELSE LET P == SeqsUpTo(n - 1)
         IN P \cup {Append(t, c) : t \in {u \in P : Len(u) = n - 1}, c \in Alphabet}

\* The inputs tried: every string of at most MaxLen characters, and the
\* strings of grouped characters in which no character occurs more often
\* than the one before it in the alphabet ("aaaabbbccd" is one).
Counts ==
    {cnt \in [1..Len(AlphaSeq) -> 0..MaxCount] :
        \A i \in 1..(Len(AlphaSeq) - 1) : cnt[i] >= cnt[i + 1]}

Inputs == {Grouped(cnt, 1) : cnt \in Counts} \cup SeqsUpTo(MaxLen)

\* ---------------------------------------------------------------- nodes
\* The nodes allocated so far, in allocation order; a node is named by its
\* position.  An Rc<HuffmanNode> child is the position of the child.
leaf(c, f) == [freq |-> f, ch |-> c, left |-> 0, right |-> 0]

\* Variant: both children are the first node extracted.
internal_M(l, r, f) == [freq |-> f, ch |-> NoChar, left |-> l, right |-> l]

internal(l, r, f) == [freq |-> f, ch |-> NoChar, left |-> l, right |-> r]

IsLeaf(nd) == nd.left = 0

\* Variant: the comparison of the frequencies, not reversed (a max queue).
cmp_M(ns, a, b) ==
    IF ns[a].freq < ns[b].freq THEN "Less"
    ELSE IF ns[a].freq > ns[b].freq THEN "Greater"
    ELSE "Equal"

\* impl Ord for HuffmanNode: the comparison of the frequencies, reversed.
cmp(ns, a, b) ==
    IF ns[a].freq < ns[b].freq THEN "Greater"
    ELSE IF ns[a].freq > ns[b].freq THEN "Less"
    ELSE "Equal"

\* a <= b, as PartialOrd derives it from cmp.
le(ns, a, b) == cmp(ns, a, b) # "Greater"

\* ---------------------------------------------------------------- BinaryHeap
\* data is the heap's vector; positions are 0-based as in the library,
\* data[p + 1] is the element at position p.
swap(data, p, q) ==
    [data EXCEPT ![p + 1] = data[q + 1], ![q + 1] = data[p + 1]]

\* Variant: an element also moves above a parent it is equal to.
RECURSIVE sift_up_M(_, _, _, _)
sift_up_M(ns, data, start, pos) ==
    IF pos > start
    THEN LET parent == (pos - 1) \div 2
         IN IF cmp(ns, data[pos + 1], data[parent + 1]) = "Less"
            THEN data
            ELSE sift_up_M(ns, swap(data, pos, parent), start, parent)
    ELSE data

RECURSIVE sift_up(_, _, _, _)
sift_up(ns, data, start, pos) ==
    IF pos > start
    THEN LET parent == (pos - 1) \div 2
         IN IF le(ns, data[pos + 1], data[parent + 1])
            THEN data
            ELSE sift_up(ns, swap(data, pos, parent), start, parent)
    ELSE data

saturating_sub(a, b) == IF a >= b THEN a - b ELSE 0

\* Variant: the hole moves to the lesser of the two children.
RECURSIVE sift_down_to_bottom_M(_, _, _, _)
sift_down_to_bottom_M(ns, data, start, pos) ==
    LET end == Len(data)
        child == 2 * pos + 1
    IN IF child <= saturating_sub(end, 2)
       THEN LET c == IF le(ns, data[child + 1], data[child + 2])
                     THEN child ELSE child + 1
            IN sift_down_to_bottom_M(ns, swap(data, pos, c), start, c)
       ELSE IF child = end - 1
            THEN sift_up(ns, swap(data, pos, child), start, child)
            ELSE sift_up(ns, data, start, pos)

RECURSIVE sift_down_to_bottom(_, _, _, _)
sift_down_to_bottom(ns, data, start, pos) ==
    LET end == Len(data)
        child == 2 * pos + 1
    IN IF child <= saturating_sub(end, 2)
       THEN LET c == IF le(ns, data[child + 1], data[child + 2])
                     THEN child + 1 ELSE child
            IN sift_down_to_bottom(ns, swap(data, pos, c), start, c)
       ELSE IF child = end - 1
            THEN sift_up(ns, swap(data, pos, child), start, child)
            ELSE sift_up(ns, data, start, pos)

\* Variant: the item is appended to the vector and not sifted up.
push_M(ns, data, item) == Append(data, item)

push(ns, data, item) ==
    sift_up(ns, Append(data, item), 0, Len(data))

\* pop on a non-empty heap: the element returned and the vector left.
popItem(data) == data[1]

popRest(ns, data) ==
    LET n == Len(data)
    IN IF n = 1 THEN <<>>
       ELSE sift_down_to_bottom(ns,
                [i \in 1..(n - 1) |-> IF i = 1 THEN data[n] ELSE data[i]], 0, 0)

\* ---------------------------------------------------------------- counting
\* Variant: a new entry starts at 1 and is then incremented.
entryIncr_M(f, c) ==
    IF c \in DOMAIN f THEN [f EXCEPT ![c] = @ + 1] ELSE f @@ (c :> 2)

\* freq.entry(c).or_insert(0) followed by += 1.
entryIncr(f, c) ==
    IF c \in DOMAIN f THEN [f EXCEPT ![c] = @ + 1] ELSE f @@ (c :> 1)

RECURSIVE countChars(_, _)
countChars(f, str) ==
    IF str = <<>> THEN f
    ELSE countChars(entryIncr(f, Head(str)), Tail(str))

EmptyMap == [c \in {} |-> 0]

\* ---------------------------------------------------------------- conditions
\* Variant: a queue of one node counts as empty.
is_empty_M(data) == Len(data) <= 1

\* min_queue.is_empty(), line 81.
is_empty(data) == Len(data) = 0

\* Variant: the loop stops with two nodes left.
loop_cond_M(data) == Len(data) > 2

\* The loop condition, line 85.
loop_cond(data) == Len(data) > 1

\* Variant: the sum takes the first node's frequency only.
freq_sum_M(ns, a, b) == ns[a].freq

\* line 88
freq_sum(ns, a, b) == ns[a].freq + ns[b].freq

\* ---------------------------------------------------------------- state
VARIABLES
    s,          \* the input string
    freq,       \* the HashMap of get_frequencies
    nodes,      \* the nodes allocated so far
    min_queue,  \* the BinaryHeap's vector, of node positions
    x, y,       \* the locals of build_huffman_tree's loop (0: unset)
    root,       \* the node returned by build_huffman_tree (0: none)
    popped,     \* what the caller's own pops of the collection returned
    pc,         \* position in the program
    run,        \* number of the current run on s
    prevTree    \* the tree the last finished build on s returned (<<>>: none)

vars == <<s, freq, nodes, min_queue, x, y, root, popped, pc, run, prevTree>>

\* The tree below node id, by value: <<freq, ch>> or <<freq, left, right>>.
RECURSIVE TreeOf(_, _)
TreeOf(ns, id) ==
    IF IsLeaf(ns[id]) THEN <<ns[id].freq, ns[id].ch>>
    ELSE <<ns[id].freq, TreeOf(ns, ns[id].left), TreeOf(ns, ns[id].right)>>

Init ==
    /\ s \in Inputs
    /\ freq = EmptyMap
    /\ nodes = <<>>
    /\ min_queue = <<>>
    /\ x = 0 /\ y = 0 /\ root = 0
    /\ popped = <<>>
    /\ pc = "start"
    /\ run = 1
    /\ prevTree = <<>>

\* get_frequencies, lines 62-66: the counting loop.
CountLoop ==
    /\ pc = "start"
    /\ freq' = countChars(EmptyMap, s)
    /\ pc' = IF DOMAIN freq' = {} THEN "ready" ELSE "seed"
    /\ UNCHANGED <<s, nodes, min_queue, x, y, root, popped, run, prevTree>>

\* The keys freq.keys() has not yielded yet.
KeysLeft == DOMAIN freq \ {nodes[i].ch : i \in 1..Len(nodes)}

\* get_frequencies, lines 69-71: one iteration over freq.keys(); the order
\* of a HashMap's keys is unspecified, so any key not yet yielded may be next.
SeedPush ==
    /\ pc = "seed"
    /\ \E c \in KeysLeft :
          LET ns == Append(nodes, leaf(c, freq[c]))
          IN /\ nodes' = ns
             /\ min_queue' = push(ns, min_queue, Len(ns))
             /\ pc' = IF KeysLeft = {c} THEN "ready" ELSE "seed"
    /\ UNCHANGED <<s, freq, x, y, root, popped, run, prevTree>>

\* The caller pops the collection itself (tests, lines 104-108).
DrainPop ==
    /\ pc \in {"ready", "drain"}
    /\ IF min_queue = <<>>
       THEN /\ pc' = "drained"
            /\ UNCHANGED <<min_queue, popped>>
       ELSE /\ popped' = Append(popped, popItem(min_queue))
            /\ min_queue' = popRest(nodes, min_queue)
            /\ pc' = "drain"
    /\ UNCHANGED <<s, freq, nodes, x, y, root, run, prevTree>>

\* build_huffman_tree, lines 81-83.
BuildEnter ==
    /\ pc = "ready"
    /\ pc' = IF is_empty(min_queue) THEN "err" ELSE "loop"
    /\ UNCHANGED <<s, freq, nodes, min_queue, x, y, root, popped, run, prevTree>>

\* line 86
PopX ==
    /\ pc = "loop"
    /\ loop_cond(min_queue)
    /\ x' = popItem(min_queue)
    /\ min_queue' = popRest(nodes, min_queue)
    /\ pc' = "popy"
    /\ UNCHANGED <<s, freq, nodes, y, root, popped, run, prevTree>>

\* line 87
PopY ==
    /\ pc = "popy"
    /\ y' = popItem(min_queue)
    /\ min_queue' = popRest(nodes, min_queue)
    /\ pc' = "pushz"
    /\ UNCHANGED <<s, freq, nodes, x, root, popped, run, prevTree>>

\* lines 88-90
PushZ ==
    /\ pc = "pushz"
    /\ LET ns == Append(nodes, internal(x, y, freq_sum(nodes, x, y)))
       IN /\ nodes' = ns
          /\ min_queue' = push(ns, min_queue, Len(ns))
    /\ x' = 0 /\ y' = 0
    /\ pc' = "loop"
    /\ UNCHANGED <<s, freq, root, popped, run, prevTree>>

\* line 92
ReturnRoot ==
    /\ pc = "loop"
    /\ ~loop_cond(min_queue)
    /\ root' = popItem(min_queue)
    /\ min_queue' = popRest(nodes, min_queue)
    /\ pc' = "done"
    /\ UNCHANGED <<s, freq, nodes, x, y, popped, run, prevTree>>

\* The caller runs the program again on the same string (tests, line 110).
Again ==
    /\ pc \in {"done", "err", "drained"}
    /\ run < MaxRuns
    /\ run' = run + 1
    /\ prevTree' = IF pc = "done" THEN TreeOf(nodes, root) ELSE prevTree
    /\ freq' = EmptyMap
    /\ nodes' = <<>>
    /\ min_queue' = <<>>
    /\ x' = 0 /\ y' = 0 /\ root' = 0
    /\ popped' = <<>>
    /\ pc' = "start"
    /\ UNCHANGED s

Next ==
    \/ CountLoop
    \/ SeedPush
    \/ DrainPop
    \/ BuildEnter
    \/ PopX
    \/ PopY
    \/ PushZ
    \/ ReturnRoot
    \/ Again

Spec == Init /\ [][Next]_vars

\* One run of the program: get_frequencies, then either the caller's pops
\* or build_huffman_tree.
NextOnce ==
    \/ CountLoop
    \/ SeedPush
    \/ DrainPop
    \/ BuildEnter
    \/ PopX
    \/ PopY
    \/ PushZ
    \/ ReturnRoot

\* A call that has started runs to its end: the program is sequential and
\* nothing in it waits.
FairSpec == Init /\ [][NextOnce]_vars /\ WF_vars(NextOnce)

TypeOK ==
    /\ pc \in {"start", "seed", "ready", "drain", "drained", "err",
               "loop", "popy", "pushz", "done"}
    /\ run \in 1..MaxRuns
    /\ x \in 0..Len(nodes) /\ y \in 0..Len(nodes) /\ root \in 0..Len(nodes)

\* ---------------------------------------------------------------- properties
\* What the properties measure, computed from the input and the nodes alone.
Chars(str) == {str[i] : i \in 1..Len(str)}

Occ(c) == Cardinality({i \in 1..Len(s) : s[i] = c})

Internals == {i \in 1..Len(nodes) : ~IsLeaf(nodes[i])}

RECURSIVE SumFreq(_)
SumFreq(q) == IF q = <<>> THEN 0 ELSE nodes[Head(q)].freq + SumFreq(Tail(q))

\* The leaves below node id, left to right.
RECURSIVE LeavesOf(_)
LeavesOf(id) ==
    IF IsLeaf(nodes[id]) THEN <<id>>
    ELSE LeavesOf(nodes[id].left) \o LeavesOf(nodes[id].right)

\* Sum over the leaves below id of frequency times depth.
RECURSIVE Cost(_, _)
Cost(id, depth) ==
    IF IsLeaf(nodes[id]) THEN nodes[id].freq * depth
    ELSE Cost(nodes[id].left, depth + 1) + Cost(nodes[id].right, depth + 1)

RECURSIVE SumOcc(_)
SumOcc(S) ==
    IF S = {} THEN 0 ELSE LET c == CHOOSE c \in S : TRUE IN Occ(c) + SumOcc(S \ {c})

SetMin(S) == CHOOSE m \in S : \A k \in S : m <= k

\* The least weighted sum of code lengths of any full binary tree whose
\* leaves are the characters S, by trying every split into two subtrees.
RECURSIVE MinCost(_)
MinCost(S) ==
    IF Cardinality(S) <= 1 THEN 0
    ELSE SumOcc(S)
         + SetMin({MinCost(A) + MinCost(S \ A) : A \in (SUBSET S) \ {{}, S}})

\* C1: build_huffman_tree fails exactly on the empty collection, which is
\* what the empty string gives, and then nothing was popped or merged; on a
\* collection of at least one node it enters the loop instead.
C1_EmptyInputOnly ==
    /\ pc = "err" => /\ s = <<>>
                     /\ min_queue = <<>> /\ nodes = <<>>
                     /\ x = 0 /\ y = 0 /\ root = 0
    /\ (pc = "ready" /\ s = <<>>) => min_queue = <<>>
    /\ (pc = "ready" /\ s # <<>>) => min_queue # <<>>
    /\ pc \in {"loop", "popy", "pushz", "done"} => s # <<>>

C1_Witness == pc = "err" /\ s = <<>>

\* C2: every internal node's frequency is the sum of its children's; between
\* merge steps the frequencies in the collection add up to the length of the
\* input; the root returned has the length of the input as its frequency.
C2_FrequencyConservation ==
    /\ \A i \in Internals :
          nodes[i].freq = nodes[nodes[i].left].freq + nodes[nodes[i].right].freq
    /\ pc = "loop" => SumFreq(min_queue) = Len(s)
    /\ pc = "done" => nodes[root].freq = Len(s)

C2_Witness ==
    /\ pc = "done"
    /\ Cardinality(Internals) = 3
    /\ nodes[root].freq = Len(s)

\* C3: the leaves of the tree returned carry each distinct character of the
\* input exactly once, and no node is the child of two parents (or twice the
\* child of one).
C3_LeafCompleteness ==
    /\ pc = "done" =>
          LET lv == LeavesOf(root)
          IN /\ {nodes[lv[i]].ch : i \in 1..Len(lv)} = Chars(s)
             /\ Len(lv) = Cardinality(Chars(s))
    /\ \A i \in Internals :
          /\ nodes[i].left # nodes[i].right
          /\ \A j \in Internals \ {i} :
                {nodes[i].left, nodes[i].right}
                    \cap {nodes[j].left, nodes[j].right} = {}

C3_Witness ==
    /\ pc = "done"
    /\ Len(LeavesOf(root)) = 4
    /\ Cardinality(Chars(s)) = 4

\* C4: the tree returned has the least weighted sum of code lengths among
\* all full binary trees over the same characters.
C4_Optimal ==
    pc = "done" => Cost(root, 0) = MinCost(Chars(s))

C4_Witness ==
    /\ pc = "done"
    /\ Cardinality(Chars(s)) = 4
    /\ \E c, d \in Chars(s) : c # d /\ Occ(c) = Occ(d)
    /\ Cost(root, 0) = MinCost(Chars(s))

Scenario == Rep("a", 4) \o Rep("b", 3) \o Rep("c", 2) \o Rep("d", 1)

ScenarioTree ==
    <<10, <<4, "a">>,
          <<6, <<3, "b">>,
               <<3, <<1, "d">>, <<2, "c">>>>>>>>

\* C5: on "aaaabbbccd" the tree returned is a(4) beside (b(3) beside
\* (d(1) beside c(2))), whatever order the leaves were pushed in.
C5_Scenario ==
    (pc = "done" /\ s = Scenario) => TreeOf(nodes, root) = ScenarioTree

C5_Witness ==
    /\ pc = "done" /\ s = Scenario
    /\ nodes[1].ch = "a" /\ nodes[2].ch = "b"
    /\ TreeOf(nodes, root) = ScenarioTree

\* C6: a second run on the same input returns the same tree as the first:
\* same shape, same frequencies, same character at every leaf.
C6_Determinism ==
    (pc = "done" /\ prevTree # <<>>) => TreeOf(nodes, root) = prevTree

\* C7: popping the collection get_frequencies returns until it is empty
\* gives one leaf for each distinct character of the input, with the number
\* of its occurrences as frequency, in non-decreasing order of frequency.
C7_Seeded ==
    /\ \A i \in 1..Len(popped) :
          /\ IsLeaf(nodes[popped[i]])
          /\ nodes[popped[i]].ch \in Chars(s)
          /\ nodes[popped[i]].freq = Occ(nodes[popped[i]].ch)
          /\ \A j \in 1..Len(popped) :
                /\ i < j => nodes[popped[i]].freq <= nodes[popped[j]].freq
                /\ i # j => nodes[popped[i]].ch # nodes[popped[j]].ch
    /\ pc = "drained" =>
          /\ min_queue = <<>>
          /\ {nodes[popped[i]].ch : i \in 1..Len(popped)} = Chars(s)
    /\ (pc = "ready" /\ s = <<>>) => min_queue = <<>> /\ nodes = <<>>

C7_Witness ==
    /\ pc = "drained"
    /\ Len(popped) = 4
    /\ \E i \in 1..3 : nodes[popped[i]].freq < nodes[popped[i + 1]].freq

\* C8: the loop ends: with n leaves, the nodes in the collection and the
\* merges done add up to n at every turn of the loop, the root is returned
\* after n - 1 merges, and with one leaf the root is that leaf.
C8_Turns ==
    LET n == Cardinality(DOMAIN freq)
    IN /\ pc = "loop" => Len(min_queue) + Cardinality(Internals) = n
       /\ pc = "popy" => Len(min_queue) + 1 + Cardinality(Internals) = n
       /\ pc = "pushz" => Len(min_queue) + 2 + Cardinality(Internals) = n
       /\ pc = "done" =>
             /\ min_queue = <<>>
             /\ Cardinality(Internals) = n - 1
             /\ n = 1 => /\ IsLeaf(nodes[root])
                         /\ nodes[root].freq = Len(s)
                         /\ Len(nodes) = 1

C8_Terminates ==
    /\ []C8_Turns
    /\ (pc = "loop") ~> (pc = "done")

C8_Witness ==
    /\ pc = "done"
    /\ s = Rep("a", 4)
    /\ TreeOf(nodes, root) = <<4, "a">>

\* C9: the two nodes a turn of the loop extracts are the two least frequent
\* of the collection, the first becomes the left child and the second the
\* right child of the node pushed back, and so in every internal node the
\* left child is at most as frequent as the right one.
C9_Step ==
    /\ (pc = "loop" /\ pc' = "popy") =>
          /\ x' \in {min_queue[i] : i \in 1..Len(min_queue)}
          /\ \A i \in 1..Len(min_queue) :
                nodes[x'].freq <= nodes[min_queue[i]].freq
    /\ (pc = "popy" /\ pc' = "pushz") =>
          /\ y' \in {min_queue[i] : i \in 1..Len(min_queue)}
          /\ nodes[x].freq <= nodes[y'].freq
          /\ \A i \in 1..Len(min_queue) :
                nodes[y'].freq <= nodes[min_queue[i]].freq
    /\ (pc = "pushz" /\ pc' = "loop") =>
          LET z == Len(nodes')
          IN /\ z = Len(nodes) + 1
             /\ nodes'[z].left = x /\ nodes'[z].right = y
             /\ {min_queue'[i] : i \in 1..Len(min_queue')}
                    = {min_queue[i] : i \in 1..Len(min_queue)} \cup {z}
    /\ \A i \in 1..Len(nodes') :
          ~IsLeaf(nodes'[i]) =>
              nodes'[nodes'[i].left].freq <= nodes'[nodes'[i].right].freq

C9_GreedyMerge == [][C9_Step]_vars

C9_Witness ==
    /\ pc = "pushz"
    /\ Len(min_queue) >= 2
    /\ nodes[x].freq < nodes[y].freq
    /\ \A i \in 1..Len(min_queue) : nodes[y].freq <= nodes[min_queue[i]].freq

\* The positions from which the next access to the collection is a pop.
AtPop == pc \in {"ready", "drain", "loop", "popy"} /\ min_queue # <<>>

\* C10 as stated: the node a pop returns was inserted before every node of
\* the same frequency still in the collection (nodes are pushed in the order
\* they are allocated in, each once).
C10_FIFO ==
    AtPop => \A i \in 2..Len(min_queue) :
                nodes[min_queue[i]].freq = nodes[min_queue[1]].freq
                    => min_queue[1] < min_queue[i]

\* C10, amended: the node a pop returns is one of least frequency in the
\* collection; which of several equally frequent nodes it is follows from
\* the heap's layout, not from the order of insertion.
C10_LeastFirst ==
    AtPop => \A i \in 1..Len(min_queue) :
                nodes[popItem(min_queue)].freq <= nodes[min_queue[i]].freq

C10_Witness ==
    /\ pc = "popy"
    /\ \E i \in 2..Len(min_queue) :
          /\ nodes[min_queue[i]].freq = nodes[min_queue[1]].freq
          /\ min_queue[i] < min_queue[1]
    /\ \A i \in 1..Len(min_queue) :
          nodes[min_queue[1]].freq <= nodes[min_queue[i]].freq
====
